---- MODULE Spec2Model ----
(***************************************************************************)
(* Batched, rate-limited enrichment of track identifiers with audio        *)
(* features: SpotifyAudioFeatureCollector.get_audio_features_batch and     *)
(* SpotifyAudioFeatureCollector.collect_all_audio_features                 *)
(* (src/src/dataETL/spotify_client.py).                                    *)
(*                                                                         *)
(* A string identifier is modelled by the sequence of its ':'-separated    *)
(* segments: "spotify:track:a" is <<"spotify", "track", "a">>, the bare id *)
(* "a" is <<"a">>.  A dict is a function whose DOMAIN is its key set.  A   *)
(* path is [dir |-> directory part, name |-> file name].                   *)
(***************************************************************************)
EXTENDS Integers, Sequences, FiniteSets, TLC

\* ------------------------------------------------------------------ bounds
\* longest enumerated identifier list
MaxLen == 2
\* largest enumerated batch size for the enumerated lists
MaxBatch == 2
\* chunks up to this size get every per-slot response; longer ones patterns
MaxEnum == 2
\* in a run over a list longer than MaxLen: the chunks whose lookup does not
\* answer a full set of features (runs over shorter lists take every outcome
\* in every chunk)
MaxAnomalies == 2
\* most slice files in an enumerated data directory
MaxSlices == 2

\* ------------------------------------------------------- program constants
\* Spotify's cap on identifiers per audio-features call
ProviderCap == 100
\* wait used when a 429 carries no Retry-After header
FallbackWait == 60
\* cooldown after a fault in a chunk
ErrorCooldown == 5
\* a checkpoint is written when batch_num is a multiple of this
CheckpointEvery == 10

\* ------------------------------------------------------------ Python values
None == [none |-> TRUE]
EmptyDict == [u \in {} |-> None]

Min(a, b) == IF a < b THEN a ELSE b

Range(s) == {s[j] : j \in 1..Len(s)}

\* variant: keys already present keep their old value
DictUpdate_KeepOld(d, other) ==
  [u \in (DOMAIN d) \cup (DOMAIN other) |->
      IF u \in DOMAIN d THEN d[u] ELSE other[u]]

\* dict.update(other): keys of other overwrite
DictUpdate(d, other) ==
  [u \in (DOMAIN d) \cup (DOMAIN other) |->
      IF u \in DOMAIN other THEN other[u] ELSE d[u]]

\* the 12 fields copied into an AudioFeatureRecord
FeatureKeys ==
  {"acousticness", "danceability", "energy", "instrumentalness", "liveness",
   "loudness", "speechiness", "tempo", "valence", "key", "mode",
   "time_signature"}

\* ------------------------------------------------------------- identifiers
\* variant: the identifier is sent as it was passed
extract_track_id_from_uri_Keep(track_uri) == track_uri

extract_track_id_from_uri(track_uri) ==
  IF Len(track_uri) >= 3 /\ track_uri[1] = "spotify" /\ track_uri[2] = "track"
  THEN <<track_uri[Len(track_uri)]>>
  ELSE track_uri

\* ------------------------------------------------------ the remote service
\* What sp.audio_features answers for one slot: a feature object of the
\* track asked for (the 12 fields and the service's own "id"), an object
\* lacking a field, or no data.
FeatureObject(track_id, kind) ==
  CASE kind = "feat"    -> [k \in FeatureKeys \cup {"id"} |-> track_id]
    [] kind = "partial" -> [k \in (FeatureKeys \ {"time_signature"}) \cup {"id"} |-> track_id]
    [] OTHER            -> None

\* the service's answer list for the ids sent, given each slot's kind; a
\* slot beyond the ids sent carries an object of an unrequested track
ResponseList(track_ids, kinds) ==
  [j \in 1..Len(kinds) |->
      FeatureObject(IF j <= Len(track_ids) THEN track_ids[j] ELSE <<"other">>,
                    kinds[j])]

ConstSeq(n, v) == [j \in 1..n |-> v]

\* per-slot kinds of a well-sized answer to m ids
SlotPatterns(m) ==
  IF m <= MaxEnum
  THEN [1..m -> {"feat", "nodata"}]
  ELSE {ConstSeq(m, "feat"), ConstSeq(m, "nodata"),
        [j \in 1..m |-> IF j % 2 = 1 THEN "feat" ELSE "nodata"]}

\* wrongly sized or malformed answers to m ids
OddPatterns(m) ==
  {ConstSeq(m - 1, "feat"), ConstSeq(m + 1, "feat"),
   [j \in 1..m |-> IF j = m THEN "partial" ELSE "feat"]}

\* values of the Retry-After header of a 429: absent, seconds, or a value
\* int() rejects (the HTTP-date form)
RetryAfterHeaders == {"absent", "7", "http-date"}

\* the seconds until the date the HTTP-date header above names
HttpDateWait == 30

\* int(str) for the header values above
ParseInt(s) == CASE s = "7" -> 7

IsInt(s) == s = "7"

\* every outcome of one sp.audio_features(track_ids) call
RemoteOutcomes(m) ==
  [type : {"ok"}, kinds : SlotPatterns(m) \cup OddPatterns(m)]
    \cup [type : {"not_a_list"}]
    \cup [type : {"rate_limited"}, retry_after : RetryAfterHeaders]
    \cup [type : {"service_error"}]
    \cup [type : {"fault"}]

\* an outcome other than a full list of feature objects
IsAnomaly(m, o) == ~(o.type = "ok" /\ o.kinds = ConstSeq(m, "feat"))

\* ------------------------------------------------- get_audio_features_batch
\* the record built from a feature object: the 12 fields, copied
AudioFeatureRecord(features) == [k \in FeatureKeys |-> features[k]]

\* variant: a slot without data leaves no entry in the result
MapSlots_DropNull(track_uris, features_list) ==
  LET n == Len(features_list)
      Bad(j) == \/ j > Len(track_uris)
                \/ /\ features_list[j] # None
                   /\ ~(FeatureKeys \subseteq DOMAIN features_list[j])
      LastSlot(u) == LET js == {j \in 1..n : track_uris[j] = u}
                     IN CHOOSE j \in js : \A k \in js : k <= j
  IN IF \E j \in 1..n : Bad(j)
     THEN [error |-> TRUE, result |-> EmptyDict]
     ELSE [error |-> FALSE,
           result |-> [u \in {v \in {track_uris[j] : j \in 1..n} :
                                  features_list[LastSlot(v)] # None} |->
                         AudioFeatureRecord(features_list[LastSlot(u)])]]

\* the loop that maps the answer's slots back onto the URIs: slot j goes to
\* track_uris[j], a later slot of the same URI overwriting an earlier one;
\* error is the IndexError of a slot beyond the URIs or the KeyError of an
\* object lacking a field, raised before the result is returned
MapSlots(track_uris, features_list) ==
  LET n == Len(features_list)
      Bad(j) == \/ j > Len(track_uris)
                \/ /\ features_list[j] # None
                   /\ ~(FeatureKeys \subseteq DOMAIN features_list[j])
      LastSlot(u) == LET js == {j \in 1..n : track_uris[j] = u}
                     IN CHOOSE j \in js : \A k \in js : k <= j
  IN IF \E j \in 1..n : Bad(j)
     THEN [error |-> TRUE, result |-> EmptyDict]
     ELSE [error |-> FALSE,
           result |-> [u \in {track_uris[j] : j \in 1..n} |->
                         IF features_list[LastSlot(u)] # None
                         THEN AudioFeatureRecord(features_list[LastSlot(u)])
                         ELSE None]]

\* variant: the batch is looked up whole
CapBatch_NoCap(track_uris) == track_uris

\* the prefix of the batch that is looked up
CapBatch(track_uris) ==
  IF Len(track_uris) > ProviderCap THEN SubSeq(track_uris, 1, ProviderCap)
  ELSE track_uris

\* the ids sent to the service for a batch
TrackIds(track_uris) ==
  [j \in 1..Len(CapBatch(track_uris)) |->
      extract_track_id_from_uri(CapBatch(track_uris)[j])]

\* the 429 handler: sleep the suggested or fallback time and return {};
\* int() of a header that is no integer raises out of the handler
RateLimited(retry_after) ==
  IF retry_after = "absent"
  THEN [raised |-> FALSE, result |-> EmptyDict, slept |-> <<FallbackWait>>]
  ELSE IF IsInt(retry_after)
  THEN [raised |-> FALSE, result |-> EmptyDict, slept |-> <<ParseInt(retry_after)>>]
  ELSE [raised |-> TRUE, result |-> EmptyDict, slept |-> <<>>]

\* get_audio_features_batch(track_uris) when the remote call ends as outcome:
\* whether it raises, the dict it returns, the sleeps it made
get_audio_features_batch(track_uris, outcome) ==
  IF track_uris = <<>>
  THEN [raised |-> FALSE, result |-> EmptyDict, slept |-> <<>>]
  ELSE CASE outcome.type = "ok" ->
              LET m == MapSlots(CapBatch(track_uris),
                                ResponseList(TrackIds(track_uris), outcome.kinds))
              IN [raised |-> FALSE,
                  result |-> IF m.error THEN EmptyDict ELSE m.result,
                  slept |-> <<>>]
         [] outcome.type = "rate_limited" -> RateLimited(outcome.retry_after)
         [] OTHER -> [raised |-> FALSE, result |-> EmptyDict, slept |-> <<>>]

\* ---------------------------------------------------------------- files
\* os.path.dirname(filename)
Dirname(filename) == filename.dir

\* filename + suffix
WithSuffix(filename, suffix) == [filename EXCEPT !.name = @ \o <<suffix>>]

\* save_features_to_file: os.makedirs(dirname) raises on the empty dirname
\* and the handler only logs, so nothing is written then
SaveWrites(filename) == Dirname(filename) # <<>>

save_features_to_file(files, features, filename) ==
  IF SaveWrites(filename) THEN DictUpdate(files, filename :> features)
  ELSE files

\* ------------------------------------------------------------- the inputs
SmallIds == {<<"a">>, <<"spotify", "track", "a">>, <<"b">>}

\* n distinct bare ids
LongList(n) == [j \in 1..n |-> <<ToString(j)>>]

OutputFiles ==
  {[dir |-> <<"data", "interim">>, name |-> <<"audio_features.json">>],
   [dir |-> <<>>, name |-> <<"audio_features.json">>]}

\* delay arguments: a short one, one longer than the cooldown after a fault,
\* and one that time.sleep rejects
Delays == {1, 10, -1}

\* the runs explored: every short list with every small batch size, delay
\* and output path, and longer lists that reach the provider cap and the
\* checkpoint interval
Runs ==
  [track_uris : UNION {[1..n -> SmallIds] : n \in 0..MaxLen},
   batch_size : 1..MaxBatch, delay : Delays, output_file : OutputFiles]
  \cup
  [track_uris : {LongList(120)}, batch_size : {50, 120}, delay : {1},
   output_file : OutputFiles]
  \cup
  [track_uris : {LongList(CheckpointEvery + 1)}, batch_size : {1}, delay : {1},
   output_file : {f \in OutputFiles : Dirname(f) # <<>>}]

\* ------------------------------------------------------------------ state
VARIABLES
  track_uris,          \* argument: the identifier list
  batch_size,          \* argument
  delay,               \* argument
  output_file,         \* argument
  pc,                  \* position in collect_all_audio_features
  i,                   \* the loop variable: offset of the current chunk
  batch_features,      \* result of the last batch lookup
  all_features,        \* CollectionState: identifier -> record or None
  failed_tracks,       \* the failure list
  successful_batches,
  summary,             \* the final statistics, once computed
  returned,            \* the value returned, once returned
  files,               \* the file system: path -> content written
  e,                   \* the exception bound by the handler of line 204
  events,              \* history: lookups, remote calls, sleeps, saves, logs
  anomalies,           \* chunks so far whose lookup was an anomaly
  features_list        \* the answer list of the lookup being merged, if any

\* the variables of the orchestrator, the file system and the history
cvars == <<track_uris, batch_size, delay, output_file, pc, i, batch_features,
           all_features, failed_tracks, successful_batches, summary, returned,
           files, e, events, anomalies, features_list>>

args == <<track_uris, batch_size, delay, output_file>>

VARIABLES
  data_dir,               \* argument of the extractor: file name -> content
  max_files,              \* argument of the extractor
  slice_files,            \* the files to process, in sorted order
  slice_idx,              \* the loop variable: slice_file = slice_files[slice_idx]
  unique_tracks,          \* identifier -> TrackRecord
  unique_keys,            \* list(unique_tracks.keys()): the insertion order
  track_frequency,        \* the Counter: identifier -> occurrences
  total_tracks_processed,
  file_errors,            \* the files whose processing was logged as an error
  xpc                     \* position in extract_unique_tracks_from_mpd

xvars == <<data_dir, max_files, slice_files, slice_idx, unique_tracks,
           unique_keys, track_frequency, total_tracks_processed, file_errors,
           xpc>>

VARIABLES
  client_id,              \* SPOTIFY_CLIENT_ID, the constructor's argument
  client_secret,          \* SPOTIFY_CLIENT_SECRET, the constructor's argument
  kpc,                    \* position in SpotifyAudioFeaturesCollector.__init__
  mpc,                    \* position in main
  mlog                    \* what main logged at the end of its try or else

dvars == <<client_id, client_secret, kpc, mpc, mlog>>

\* what the orchestrator leaves alone
outer == <<xvars, dvars>>

vars == <<cvars, xvars, dvars>>

\* no call of the extractor is in progress
ExtractorIdle ==
  /\ data_dir = EmptyDict
  /\ max_files = None
  /\ slice_files = <<>>
  /\ slice_idx = 0
  /\ unique_tracks = EmptyDict
  /\ unique_keys = <<>>
  /\ track_frequency = EmptyDict
  /\ total_tracks_processed = 0
  /\ file_errors = <<>>
  /\ xpc = "idle"

\* no call of the orchestrator is in progress, nothing written or logged
OrchestratorIdle ==
  /\ track_uris = <<>>
  /\ batch_size = 1
  /\ delay = 0
  /\ output_file = [dir |-> <<>>, name |-> <<>>]
  /\ pc = "idle"
  /\ i = 0
  /\ batch_features = EmptyDict
  /\ all_features = EmptyDict
  /\ failed_tracks = <<>>
  /\ successful_batches = 0
  /\ summary = [returned |-> FALSE]
  /\ returned = [returned |-> FALSE]
  /\ files = EmptyDict
  /\ e = [raised |-> FALSE]
  /\ events = <<>>
  /\ anomalies = 0
  /\ features_list = [list |-> FALSE]

\* no client is under construction and main is not running
DriverIdle ==
  /\ client_id = None
  /\ client_secret = None
  /\ kpc = "idle"
  /\ mpc = "idle"
  /\ mlog = <<>>

\* variant: the slice runs one element into the next chunk
Batch_Overlap ==
  SubSeq(track_uris, i + 1, Min(i + batch_size + 1, Len(track_uris)))

\* batch = track_uris[i : i + batch_size]
Batch == SubSeq(track_uris, i + 1, Min(i + batch_size, Len(track_uris)))

batch_num == (i \div batch_size) + 1

total_batches == (Len(track_uris) + batch_size - 1) \div batch_size

\* len([f for f in all_features.values() if f is not None])
success_count == Cardinality({u \in DOMAIN all_features : all_features[u] # None})

NotReturned == [returned |-> FALSE]

NoException == [raised |-> FALSE]

\* no answer list: the remote call answered no list, or its lookup is over
NoList == [list |-> FALSE]

\* the ValueError raised at the named call
ValueError(at) == [raised |-> TRUE, type |-> "ValueError", at |-> at]

Init ==
  /\ \E run \in Runs :
       /\ track_uris = run.track_uris
       /\ batch_size = run.batch_size
       /\ delay = run.delay
       /\ output_file = run.output_file
  /\ i = 0
  /\ pc = IF Len(track_uris) > 0 THEN "lookup" ELSE "final"
  /\ batch_features = EmptyDict
  /\ all_features = EmptyDict
  /\ failed_tracks = <<>>
  /\ successful_batches = 0
  /\ summary = NotReturned
  /\ returned = NotReturned
  /\ files = EmptyDict
  /\ e = NoException
  /\ events = <<>>
  /\ anomalies = 0
  /\ features_list = NoList
  /\ ExtractorIdle
  /\ DriverIdle

\* the for statement: the next chunk, or the code after the loop
NextChunk ==
  /\ i' = i + batch_size
  /\ pc' = IF i + batch_size < Len(track_uris) THEN "lookup" ELSE "final"

\* line 176: batch_features = self.get_audio_features_batch(batch)
Lookup ==
  /\ pc = "lookup"
  /\ \E o \in RemoteOutcomes(Len(CapBatch(Batch))) :
       LET r == get_audio_features_batch(Batch, o)
           anomaly == IsAnomaly(Len(CapBatch(Batch)), o)
       IN /\ anomaly => (anomalies < MaxAnomalies \/ Len(track_uris) <= MaxLen)
          /\ anomalies' = IF anomaly THEN anomalies + 1 ELSE anomalies
          /\ features_list' = IF o.type = "ok"
                              THEN [list |-> TRUE, kinds |-> o.kinds]
                              ELSE NoList
          /\ events' = events
                \o <<[ev |-> "lookup", batch_num |-> batch_num, batch |-> Batch],
                     [ev |-> "remote", ids |-> TrackIds(Batch), answer |-> o.type,
                      retry_after |-> IF o.type = "rate_limited"
                                      THEN o.retry_after ELSE "n/a"]>>
                \o [j \in 1..Len(r.slept) |-> [ev |-> "sleep", secs |-> r.slept[j]]]
          /\ IF r.raised
             THEN /\ pc' = "except"
                  /\ e' = ValueError("get_audio_features_batch")
                  /\ UNCHANGED batch_features
             ELSE /\ pc' = "merge"
                  /\ batch_features' = r.result
                  /\ UNCHANGED e
  /\ UNCHANGED <<outer, args, i, all_features, failed_tracks, successful_batches,
                 summary, returned, files>>

\* variant: a uri mapped to None is not counted as a failure
BatchFailures_SkipNone(batch, features) ==
  SelectSeq(batch, LAMBDA uri : uri \notin DOMAIN features)

\* variant: a uri absent from the result is not counted as a failure
BatchFailures_SkipAbsent(batch, features) ==
  SelectSeq(batch, LAMBDA uri : uri \in DOMAIN features /\ features[uri] = None)

\* the uris of the batch appended to failed_tracks when results came back
BatchFailures(batch, features) ==
  SelectSeq(batch, LAMBDA uri : uri \notin DOMAIN features \/ features[uri] = None)

\* variant: an empty result marks nothing as failed
Merge_DropEmpty ==
  /\ pc = "merge"
  /\ IF batch_features # EmptyDict
     THEN /\ all_features' = DictUpdate(all_features, batch_features)
          /\ successful_batches' = successful_batches + 1
          /\ failed_tracks' = failed_tracks \o BatchFailures(Batch, batch_features)
          /\ UNCHANGED events
     ELSE /\ events' = Append(events,
                [ev |-> "log_warning", batch_num |-> batch_num])
          /\ UNCHANGED <<all_features, successful_batches, failed_tracks>>
  /\ pc' = "pace"
  /\ features_list' = NoList
  /\ UNCHANGED <<outer, args, i, batch_features, summary, returned, files, e,
                 anomalies>>

\* variant: the result of the chunk replaces the dataset
Merge_Replace ==
  /\ pc = "merge"
  /\ IF batch_features # EmptyDict
     THEN /\ all_features' = batch_features
          /\ successful_batches' = successful_batches + 1
          /\ failed_tracks' = failed_tracks \o BatchFailures(Batch, batch_features)
          /\ UNCHANGED events
     ELSE /\ failed_tracks' = failed_tracks \o Batch
          /\ events' = Append(events,
                [ev |-> "log_warning", batch_num |-> batch_num])
          /\ UNCHANGED <<all_features, successful_batches>>
  /\ pc' = "pace"
  /\ features_list' = NoList
  /\ UNCHANGED <<outer, args, i, batch_features, summary, returned, files, e,
                 anomalies>>

\* lines 178-189
Merge ==
  /\ pc = "merge"
  /\ IF batch_features # EmptyDict
     THEN /\ all_features' = DictUpdate(all_features, batch_features)
          /\ successful_batches' = successful_batches + 1
          /\ failed_tracks' = failed_tracks \o BatchFailures(Batch, batch_features)
          /\ UNCHANGED events
     ELSE /\ failed_tracks' = failed_tracks \o Batch
          /\ events' = Append(events,
                [ev |-> "log_warning", batch_num |-> batch_num])
          /\ UNCHANGED <<all_features, successful_batches>>
  /\ pc' = "pace"
  /\ features_list' = NoList
  /\ UNCHANGED <<outer, args, i, batch_features, summary, returned, files, e,
                 anomalies>>

\* line 192: time.sleep(delay); a negative delay raises ValueError
Pace ==
  /\ pc = "pace"
  /\ IF delay >= 0
     THEN /\ events' = Append(events, [ev |-> "sleep", secs |-> delay])
          /\ pc' = "checkpoint"
          /\ UNCHANGED e
     ELSE /\ pc' = "except"
          /\ e' = ValueError("time.sleep")
          /\ UNCHANGED events
  /\ UNCHANGED <<outer, args, i, batch_features, all_features, failed_tracks,
                 successful_batches, summary, returned, files, anomalies,
                 features_list>>

\* lines 195-202, then the next iteration
Checkpoint ==
  /\ pc = "checkpoint"
  /\ IF batch_num % CheckpointEvery = 0
     THEN /\ files' = save_features_to_file(files, all_features,
                                            WithSuffix(output_file, ".tmp"))
          /\ events' = Append(events,
                [ev |-> "save", path |-> WithSuffix(output_file, ".tmp"),
                 content |-> all_features, batch_num |-> batch_num,
                 written |-> SaveWrites(WithSuffix(output_file, ".tmp"))])
     ELSE UNCHANGED <<files, events>>
  /\ NextChunk
  /\ UNCHANGED <<outer, args, batch_features, all_features, failed_tracks,
                 successful_batches, summary, returned, e, anomalies,
                 features_list>>

\* variant: the handler re-raises after marking the chunk
Except_Reraise ==
  /\ pc = "except"
  /\ failed_tracks' = failed_tracks \o Batch
  /\ events' = events
        \o <<[ev |-> "log_error", batch_num |-> batch_num, at |-> e.at],
             [ev |-> "sleep", secs |-> ErrorCooldown]>>
  /\ pc' = "raised"
  /\ features_list' = NoList
  /\ UNCHANGED <<outer, args, i, batch_features, all_features, successful_batches,
                 summary, returned, files, e, anomalies>>

\* lines 204-207: the handler of a fault in the chunk, then the next iteration
Except ==
  /\ pc = "except"
  /\ failed_tracks' = failed_tracks \o Batch
  /\ events' = events
        \o <<[ev |-> "log_error", batch_num |-> batch_num, at |-> e.at],
             [ev |-> "sleep", secs |-> ErrorCooldown]>>
  /\ e' = NoException
  /\ NextChunk
  /\ features_list' = NoList
  /\ UNCHANGED <<outer, args, batch_features, all_features, successful_batches,
                 summary, returned, files, anomalies>>

\* line 210
FinalSave ==
  /\ pc = "final"
  /\ files' = save_features_to_file(files, all_features, output_file)
  /\ events' = Append(events,
        [ev |-> "save", path |-> output_file, content |-> all_features,
         batch_num |-> 0, written |-> SaveWrites(output_file)])
  /\ pc' = "stats"
  /\ UNCHANGED <<outer, args, i, batch_features, all_features, failed_tracks,
                 successful_batches, summary, returned, e, anomalies,
                 features_list>>

\* lines 213-220: the division by len(track_uris) raises ZeroDivisionError
\* for the empty list
Stats ==
  /\ pc = "stats"
  /\ IF Len(track_uris) = 0
     THEN /\ pc' = "raised"
          /\ e' = [raised |-> TRUE, type |-> "ZeroDivisionError",
                   at |-> "success_count/len(track_uris)"]
          /\ UNCHANGED summary
     ELSE /\ summary' = [returned |-> FALSE,
                         requested |-> Len(track_uris),
                         collected |-> success_count,
                         failed |-> Len(failed_tracks),
                         rate |-> (success_count * 1000) \div Len(track_uris)]
          /\ pc' = "report"
          /\ UNCHANGED e
  /\ UNCHANGED <<outer, args, i, batch_features, all_features, failed_tracks,
                 successful_batches, returned, files, events, anomalies,
                 features_list>>

\* lines 222-228
Report ==
  /\ pc = "report"
  /\ IF failed_tracks # <<>>
     THEN /\ files' = DictUpdate(files,
                         WithSuffix(output_file, ".failed") :> failed_tracks)
          /\ events' = Append(events,
                [ev |-> "dump", path |-> WithSuffix(output_file, ".failed"),
                 content |-> failed_tracks])
     ELSE UNCHANGED <<files, events>>
  /\ returned' = [returned |-> TRUE, value |-> all_features]
  /\ pc' = "done"
  /\ UNCHANGED <<outer, args, i, batch_features, all_features, failed_tracks,
                 successful_batches, summary, e, anomalies,
                 features_list>>

Next ==
  \/ Lookup
  \/ Merge
  \/ Pace
  \/ Checkpoint
  \/ Except
  \/ FinalSave
  \/ Stats
  \/ Report

Spec == Init /\ [][Next]_vars

\* the single thread of control always takes its next step
FairSpec == Spec /\ WF_vars(Next)

\* ===================================================================
\* The extractor: extract_unique_tracks_from_mpd
\* ===================================================================
TrackFields ==
  {"track_uri", "track_name", "artist_name", "artist_uri", "album_name",
   "album_uri", "duration_ms"}

\* the identifier spotify:track:<x>
Uri(x) == <<"spotify", "track", x>>

\* a track entry of a playlist, with all the fields the extractor reads
Track(x, name) ==
  [k \in TrackFields |->
     CASE k = "track_uri"  -> Uri(x)
       [] k = "track_name" -> name
       [] OTHER            -> <<k, x>>]

\* the entry without one of its fields
Without(track, field) == [k \in (DOMAIN track) \ {field} |-> track[k]]

\* a parsed file: the document json.load returns
Document(playlists) ==
  [parses |-> TRUE,
   data |-> [k \in {"playlists"} |->
               [j \in 1..Len(playlists) |-> [t \in {"tracks"} |-> playlists[j]]]]]

\* a file json.load rejects
Unparseable == [parses |-> FALSE]

\* a document without the playlist list
NoPlaylistList == [parses |-> TRUE, data |-> [k \in {"info"} |-> "slice"]]

\* a document whose only playlist has no track list
NoTrackList ==
  [parses |-> TRUE,
   data |-> [k \in {"playlists"} |-> <<[t \in {"name"} |-> "mix"]>>]]

\* the contents a slice file is given: well-formed ones (no playlist, one
\* entry, a repeated identifier over two playlists, the same identifier
\* under another name), and malformed ones (unparseable, no playlist list,
\* no track list, an entry lacking its identifier or another field after a
\* complete entry)
WellFormedContents ==
  {Document(<<>>),
   Document(<<<<Track("a", "A")>>>>),
   Document(<<<<Track("a", "A"), Track("b", "B")>>, <<Track("a", "A")>>>>),
   Document(<<<<Track("b", "B2")>>>>)}

MalformedContents ==
  {Unparseable,
   NoPlaylistList,
   NoTrackList,
   Document(<<<<Track("b", "B"), Without(Track("a", "A"), "track_uri")>>>>),
   Document(<<<<Track("a", "A"), Without(Track("b", "B"), "track_name")>>>>)}

FileContents == WellFormedContents \cup MalformedContents

\* file names: the slice files mpd.slice.<n>.json, n giving the sorted
\* order, and a file the glob pattern does not match
SliceName(n) == <<"mpd.slice", n>>

OtherName == <<"README.md">>

\* the directory of the example: 2 files, 10 entries over 6 identifiers,
\* one of them 3 times
ExampleDir ==
  (SliceName(1) :>
      Document(<<<<Track("a", "A"), Track("b", "B"), Track("c", "C")>>,
                 <<Track("a", "A"), Track("d", "D")>>>>))
  @@ (SliceName(2) :>
      Document(<<<<Track("a", "A"), Track("b", "B"), Track("e", "E"),
                   Track("f", "F"), Track("c", "C")>>>>))

\* the directories explored: up to MaxSlices slice files with any of the
\* contents, with or without a file of track entries that is no slice file
Directories ==
  LET slices == UNION {[{SliceName(n) : n \in 1..m} -> FileContents] :
                          m \in 0..MaxSlices}
      other == OtherName :> Document(<<<<Track("z", "Z")>>>>)
  IN slices \cup {dir @@ other : dir \in slices} \cup {ExampleDir}

\* an int as an Optional[int] argument
IntArg(n) == [int |-> n]

\* the max_files arguments explored
FileCaps == {None} \cup {IntArg(n) : n \in 0..(MaxSlices + 1)}

\* sorted(list(data_path.glob("mpd.slice.*.json")))
SortedSliceFiles(dir) ==
  LET names == {f \in DOMAIN dir : f[1] = "mpd.slice"}
      Rank(f) == Cardinality({g \in names : g[2] <= f[2]})
  IN [j \in 1..Cardinality(names) |-> CHOOSE f \in names : Rank(f) = j]

\* lines 35-36: if max_files: slice_files = slice_files[:max_files]
CapFiles(files_, cap) ==
  IF cap = None \/ cap = IntArg(0) THEN files_
  ELSE SubSeq(files_, 1, Min(cap.int, Len(files_)))

\* sum(counter.values())
RECURSIVE SumOver(_, _)
SumOver(counter, keys) ==
  IF keys = {} THEN 0
  ELSE LET k == CHOOSE k \in keys : TRUE
       IN counter[k] + SumOver(counter, keys \ {k})

SumValues(counter) == SumOver(counter, DOMAIN counter)

\* track_frequency[track_uri] += 1 on a Counter
CounterInc(counter, key) ==
  IF key \in DOMAIN counter THEN [counter EXCEPT ![key] = @ + 1]
  ELSE DictUpdate(counter, key :> 1)

\* lines 52-65 for one track entry; error is the KeyError of a missing
\* field, raised where the field is read
ProcessTrack(st, track) ==
  IF "track_uri" \notin DOMAIN track
  THEN [st EXCEPT !.error = TRUE]
  ELSE LET track_uri == track["track_uri"]
           counted == [st EXCEPT
                         !.track_frequency = CounterInc(@, track_uri),
                         !.total_tracks_processed = @ + 1]
       IN IF track_uri \in DOMAIN st.unique_tracks THEN counted
          ELSE IF TrackFields \subseteq DOMAIN track
          THEN [counted EXCEPT
                  !.unique_tracks =
                      DictUpdate(@, track_uri :> [k \in TrackFields |-> track[k]]),
                  !.unique_keys = Append(@, track_uri)]
          ELSE [counted EXCEPT !.error = TRUE]

\* line 51: the loop over the tracks of a playlist, left at the first error
RECURSIVE ProcessTracks(_, _)
ProcessTracks(st, tracks) ==
  IF tracks = <<>> \/ st.error THEN st
  ELSE ProcessTracks(ProcessTrack(st, Head(tracks)), Tail(tracks))

\* line 50: the loop over the playlists, left at the first error
RECURSIVE ProcessPlaylists(_, _)
ProcessPlaylists(st, playlists) ==
  IF playlists = <<>> \/ st.error THEN st
  ELSE IF "tracks" \notin DOMAIN Head(playlists)
  THEN [st EXCEPT !.error = TRUE]
  ELSE ProcessPlaylists(ProcessTracks(st, Head(playlists)["tracks"]),
                        Tail(playlists))

\* lines 46-65: the try block for one file
ProcessContent(st, content) ==
  IF ~content.parses \/ "playlists" \notin DOMAIN content.data
  THEN [st EXCEPT !.error = TRUE]
  ELSE ProcessPlaylists(st, content.data["playlists"])

ExtractInit ==
  /\ \E dir \in Directories, cap \in FileCaps :
        /\ data_dir = dir
        /\ max_files = cap
  /\ slice_files = <<>>
  /\ slice_idx = 0
  /\ unique_tracks = EmptyDict
  /\ unique_keys = <<>>
  /\ track_frequency = EmptyDict
  /\ total_tracks_processed = 0
  /\ file_errors = <<>>
  /\ xpc = "glob"
  /\ OrchestratorIdle
  /\ DriverIdle

\* lines 32-43: the files to process and the empty accumulators
Glob ==
  /\ xpc = "glob"
  /\ slice_files' = CapFiles(SortedSliceFiles(data_dir), max_files)
  /\ slice_idx' = 0
  /\ unique_tracks' = EmptyDict
  /\ unique_keys' = <<>>
  /\ track_frequency' = EmptyDict
  /\ total_tracks_processed' = 0
  /\ xpc' = IF slice_files' # <<>> THEN "loop" ELSE "summary"
  /\ UNCHANGED <<data_dir, max_files, file_errors, cvars, dvars>>

\* lines 45-69: one iteration of the loop over the files; what the try block
\* did before an error stays, and the handler logs and continues
ProcessFile ==
  /\ xpc = "loop"
  /\ LET slice_file == slice_files[slice_idx + 1]
         st == ProcessContent(
                  [unique_tracks |-> unique_tracks, unique_keys |-> unique_keys,
                   track_frequency |-> track_frequency,
                   total_tracks_processed |-> total_tracks_processed,
                   error |-> FALSE],
                  data_dir[slice_file])
     IN /\ unique_tracks' = st.unique_tracks
        /\ unique_keys' = st.unique_keys
        /\ track_frequency' = st.track_frequency
        /\ total_tracks_processed' = st.total_tracks_processed
        /\ file_errors' = IF st.error THEN Append(file_errors, slice_file)
                          ELSE file_errors
  /\ slice_idx' = slice_idx + 1
  /\ xpc' = IF slice_idx + 1 < Len(slice_files) THEN "loop" ELSE "summary"
  /\ UNCHANGED <<data_dir, max_files, slice_files, cvars, dvars>>

\* lines 71-77: the summary log, whose average divides by
\* len(unique_tracks) and raises ZeroDivisionError when there is none, then
\* the return
Summarise ==
  /\ xpc = "summary"
  /\ xpc' = IF Cardinality(DOMAIN unique_tracks) = 0 THEN "raised" ELSE "returned"
  /\ UNCHANGED <<data_dir, max_files, slice_files, slice_idx, unique_tracks,
                 unique_keys, track_frequency, total_tracks_processed,
                 file_errors, cvars, dvars>>

ExtractNext ==
  \/ Glob
  \/ ProcessFile
  \/ Summarise

\* the extractor called on its own, on every directory and cap
ExtractSpec == ExtractInit /\ [][ExtractNext]_vars

\* ===================================================================
\* The catalog client's constructor and the driver: __init__,
\* _test_connection and main
\* ===================================================================
\* MAX_FILES of main
MAX_FILES == 5

\* the values an environment variable is read as: unset, empty, set
CredentialValues == {None, [str |-> ""], [str |-> "secret"]}

\* Python's truth value of os.getenv's result
Truthy(value) == value # None /\ value # [str |-> ""]

\* tracks_file and the output_file main passes on
TracksFile == [dir |-> <<"data", "interim">>, name |-> <<"unique_tracks.json">>]

FeaturesFile == [dir |-> <<"data", "interim">>, name |-> <<"audio_features.json">>]

\* the outcomes of sp.search(q="test", type="track", limit=1): a result
\* with an item, a result without items, no result, and the errors
SearchOutcomes ==
  {"items", "no_items", "nothing", "unauthorized", "forbidden", "fault"}

\* the outcomes of sp.audio_features([test_track_id]): a feature object, a
\* slot without data, no list, and the errors
ProbeOutcomes ==
  {"features", "nodata", "nothing", "unauthorized", "forbidden", "fault"}

\* save_track_data: the document written, or the error of os.makedirs('')
\* for a path without directory
save_track_data(fs, tracks, keys, frequency, output_file_) ==
  IF Dirname(output_file_) = <<>>
  THEN [raised |-> TRUE, files |-> fs]
  ELSE [raised |-> FALSE,
        files |-> DictUpdate(fs, output_file_ :>
                    [tracks |-> [j \in 1..Len(keys) |-> tracks[keys[j]]],
                     frequencies |-> frequency,
                     summary |-> [unique_tracks |-> Len(keys),
                                  total_instances |-> SumValues(frequency)]])]

\* ----------------------------------------------------------- __init__
\* lines 26-42: the credentials check; the clients built next make no call
ClientInit ==
  /\ kpc = "init"
  /\ kpc' = IF ~Truthy(client_id) \/ ~Truthy(client_secret)
            THEN "raised" ELSE "search"
  /\ UNCHANGED <<client_id, client_secret, mpc, mlog, cvars, xvars>>

\* lines 56-59: the search of the smoke test; no item, no result or an
\* error raise out of the constructor
TestSearch ==
  /\ kpc = "search"
  /\ \E answer \in SearchOutcomes :
        /\ events' = Append(events, [ev |-> "search", answer |-> answer])
        /\ kpc' = IF answer = "items" THEN "probe" ELSE "raised"
  /\ UNCHANGED <<client_id, client_secret, mpc, mlog, xvars, track_uris,
                 batch_size, delay, output_file, pc, i, batch_features,
                 all_features, failed_tracks, successful_batches, summary,
                 returned, files, e, anomalies, features_list>>

\* variant: a feature lookup without data passes the test
TestFeatures_Lenient ==
  /\ kpc = "probe"
  /\ \E answer \in ProbeOutcomes :
        /\ events' = Append(events, [ev |-> "probe", answer |-> answer])
        /\ kpc' = IF answer \in {"features", "nodata"} THEN "ready" ELSE "raised"
  /\ UNCHANGED <<client_id, client_secret, mpc, mlog, xvars, track_uris,
                 batch_size, delay, output_file, pc, i, batch_features,
                 all_features, failed_tracks, successful_batches, summary,
                 returned, files, e, anomalies, features_list>>

\* lines 62-66: the feature lookup on the known track; no data, no list or
\* an error raise out of the constructor
TestFeatures ==
  /\ kpc = "probe"
  /\ \E answer \in ProbeOutcomes :
        /\ events' = Append(events, [ev |-> "probe", answer |-> answer])
        /\ kpc' = IF answer = "features" THEN "ready" ELSE "raised"
  /\ UNCHANGED <<client_id, client_secret, mpc, mlog, xvars, track_uris,
                 batch_size, delay, output_file, pc, i, batch_features,
                 all_features, failed_tracks, successful_batches, summary,
                 returned, files, e, anomalies, features_list>>

\* the call collect_all_audio_features(uris, output, size, wait): lines
\* 161-163 and the first test of the loop
CallCollect(uris, output, size, wait) ==
  /\ track_uris' = uris
  /\ output_file' = output
  /\ batch_size' = size
  /\ delay' = wait
  /\ i' = 0
  /\ pc' = IF Len(uris) > 0 THEN "lookup" ELSE "final"
  /\ batch_features' = EmptyDict
  /\ all_features' = EmptyDict
  /\ failed_tracks' = <<>>
  /\ successful_batches' = 0
  /\ summary' = NotReturned
  /\ returned' = NotReturned
  /\ e' = NoException
  /\ anomalies' = 0
  /\ features_list' = NoList
  /\ UNCHANGED <<files, events>>

\* --------------------------------------------------------------- main
MainInit ==
  /\ \E dir \in Directories, id \in CredentialValues, secret \in CredentialValues :
        /\ data_dir = dir
        /\ client_id = id
        /\ client_secret = secret
  /\ max_files = None
  /\ slice_files = <<>>
  /\ slice_idx = 0
  /\ unique_tracks = EmptyDict
  /\ unique_keys = <<>>
  /\ track_frequency = EmptyDict
  /\ total_tracks_processed = 0
  /\ file_errors = <<>>
  /\ xpc = "idle"
  /\ kpc = "idle"
  /\ mpc = "start"
  /\ mlog = <<>>
  /\ OrchestratorIdle

\* lines 18-35: the call extract_unique_tracks_from_mpd(DATA_DIR, MAX_FILES)
Extract ==
  /\ mpc = "start"
  /\ max_files' = IntArg(MAX_FILES)
  /\ xpc' = "glob"
  /\ mpc' = "extract"
  /\ UNCHANGED <<data_dir, slice_files, slice_idx, unique_tracks, unique_keys,
                 track_frequency, total_tracks_processed, file_errors,
                 client_id, client_secret, kpc, mlog, cvars>>

\* the extractor raised: nothing in main handles it
ExtractRaised ==
  /\ mpc = "extract"
  /\ xpc = "raised"
  /\ mpc' = "raised"
  /\ UNCHANGED <<client_id, client_secret, kpc, mlog, cvars, xvars>>

\* lines 38-39: save_track_data(unique_tracks, track_frequency, tracks_file)
SaveTracks ==
  /\ mpc = "extract"
  /\ xpc = "returned"
  /\ LET saved == save_track_data(files, unique_tracks, unique_keys,
                                  track_frequency, TracksFile)
     IN /\ files' = saved.files
        /\ mpc' = IF saved.raised THEN "raised" ELSE "credentials"
  /\ UNCHANGED <<client_id, client_secret, kpc, mlog, xvars, track_uris,
                 batch_size, delay, output_file, pc, i, batch_features,
                 all_features, failed_tracks, successful_batches, summary,
                 returned, e, events, anomalies, features_list>>

\* lines 42-53 and 69-72: with both credentials the constructor is
\* called, otherwise the warning is logged and enrichment skipped
CheckCredentials ==
  /\ mpc = "credentials"
  /\ IF Truthy(client_id) /\ Truthy(client_secret)
     THEN /\ mpc' = "construct"
          /\ kpc' = "init"
          /\ UNCHANGED mlog
     ELSE /\ mpc' = "complete"
          /\ mlog' = Append(mlog, "credentials not found")
          /\ UNCHANGED kpc
  /\ UNCHANGED <<client_id, client_secret, cvars, xvars>>

\* lines 55-61: the enrichment run over the keys of unique_tracks, with
\* batch size 100 and delay 0.1 s (0 at the model's whole seconds)
Collect ==
  /\ mpc = "construct"
  /\ kpc = "ready"
  /\ CallCollect(unique_keys, FeaturesFile, 100, 0)
  /\ mpc' = "collect"
  /\ UNCHANGED <<client_id, client_secret, kpc, mlog, xvars>>

\* lines 63-64
Collected ==
  /\ mpc = "collect"
  /\ pc = "done"
  /\ mlog' = Append(mlog, "collection complete")
  /\ mpc' = "complete"
  /\ UNCHANGED <<client_id, client_secret, kpc, cvars, xvars>>

\* variant: the handler lets the fault go on
CollectionFailed_Reraise ==
  /\ <<mpc, "raised">> \in {<<"construct", kpc>>, <<"collect", pc>>}
  /\ mlog' = Append(mlog, "collection failed")
  /\ mpc' = "raised"
  /\ UNCHANGED <<client_id, client_secret, kpc, cvars, xvars>>

\* lines 66-67: the handler of a fault of the constructor or of the run
CollectionFailed ==
  /\ <<mpc, "raised">> \in {<<"construct", kpc>>, <<"collect", pc>>}
  /\ mlog' = Append(mlog, "collection failed")
  /\ mpc' = "complete"
  /\ UNCHANGED <<client_id, client_secret, kpc, cvars, xvars>>

\* line 74
Complete ==
  /\ mpc = "complete"
  /\ mlog' = Append(mlog, "pipeline complete")
  /\ mpc' = "done"
  /\ UNCHANGED <<client_id, client_secret, kpc, cvars, xvars>>

MainNext ==
  \/ Extract
  \/ Glob
  \/ ProcessFile
  \/ Summarise
  \/ ExtractRaised
  \/ SaveTracks
  \/ CheckCredentials
  \/ ClientInit
  \/ TestSearch
  \/ TestFeatures
  \/ Collect
  \/ Lookup
  \/ Merge
  \/ Pace
  \/ Checkpoint
  \/ Except
  \/ FinalSave
  \/ Stats
  \/ Report
  \/ Collected
  \/ CollectionFailed
  \/ Complete

\* main, over every data directory and every state of the two credentials
MainSpec == MainInit /\ [][MainNext]_vars

\* ------------------------------------------- the constructor, any caller
\* the runs a caller starts on a client it has constructed
ClientRuns ==
  {run \in Runs : /\ Len(run.track_uris) <= MaxLen
                  /\ run.delay = 1
                  /\ Dirname(run.output_file) # <<>>}

\* a call of the constructor with any two credential values
ConstructInit ==
  /\ \E id \in CredentialValues, secret \in CredentialValues :
        /\ client_id = id
        /\ client_secret = secret
  /\ kpc = "init"
  /\ mpc = "idle"
  /\ mlog = <<>>
  /\ ExtractorIdle
  /\ OrchestratorIdle

\* the caller has its client, the constructor having returned, and starts
\* an enrichment run on it
UseClient ==
  /\ kpc = "ready"
  /\ pc = "idle"
  /\ \E run \in ClientRuns :
        CallCollect(run.track_uris, run.output_file, run.batch_size, run.delay)
  /\ UNCHANGED <<dvars, xvars>>

ConstructNext ==
  \/ ClientInit
  \/ TestSearch
  \/ TestFeatures
  \/ UseClient
  \/ Lookup
  \/ Merge
  \/ Pace
  \/ Checkpoint
  \/ Except
  \/ FinalSave
  \/ Stats
  \/ Report

\* the constructor called with any credentials, and the use of its client
ConstructSpec == ConstructInit /\ [][ConstructNext]_vars

\* ===================================================================
\* Properties
\* ===================================================================

\* the loop is over: every chunk has been processed
AfterLoop == pc \in {"final", "stats", "report", "done", "raised"}

Terminated == pc \in {"done", "raised"}

Distinct(s) == Cardinality(Range(s)) = Len(s)

Populated(u) == u \in DOMAIN all_features /\ all_features[u] # None

NullMarked(u) == u \in DOMAIN all_features /\ all_features[u] = None

InFailureList(u) == u \in Range(failed_tracks)

\* the k-th contiguous slice of size b of s
Chunk(s, b, k) == SubSeq(s, (k - 1) * b + 1, Min(k * b, Len(s)))

CeilDiv(n, b) == IF n % b = 0 THEN n \div b ELSE (n \div b) + 1

\* the positions of the events of one kind
EventsOf(kind) == {p \in 1..Len(events) : events[p].ev = kind}

\* the batch lookup calls issued so far, in order
Lookups == SelectSeq(events, LAMBDA x : x.ev = "lookup")

RECURSIVE Flatten(_)
Flatten(ss) == IF ss = <<>> THEN <<>> ELSE Head(ss) \o Flatten(Tail(ss))

\* ------------------------------------------------------------------ C1
\* the three situations of an identifier at run end
RecordOnly(u) == Populated(u) /\ ~InFailureList(u)

NullAndFailed(u) == NullMarked(u) /\ InFailureList(u)

FailedOnly(u) == u \notin DOMAIN all_features /\ InFailureList(u)

\* (the three exclude each other: a key of the dataset is mapped to a
\* record or to the marker, or the identifier is no key)

C2_NoIdentifierDropped ==
  AfterLoop =>
      Range(track_uris) \subseteq (DOMAIN all_features) \cup Range(failed_tracks)

\* a finished run with a batch above the provider cap whose lookup returned
\* results: the identifiers beyond the cap are accounted for as failures
C2_Witness ==
  /\ pc = "done" /\ batch_size > ProviderCap /\ Len(track_uris) > ProviderCap
  /\ all_features # EmptyDict
  /\ FailedOnly(track_uris[Len(track_uris)])

\* ------------------------------------------------------------------ C3
\* C3: the batch lookup calls issued are, in order, the contiguous slices of
\* size batch_size of the input, each issued once; once the loop is over
\* there are exactly ceil(N/B) of them and their concatenation is the input.
C3_Chunking ==
  LET calls == Lookups
  IN /\ Len(calls) <= CeilDiv(Len(track_uris), batch_size)
     /\ \A k \in 1..Len(calls) :
           /\ calls[k].batch_num = k
           /\ calls[k].batch = Chunk(track_uris, batch_size, k)
           /\ Len(calls[k].batch) <= batch_size
           /\ Len(calls[k].batch) >= 1
     /\ AfterLoop =>
           /\ Len(calls) = CeilDiv(Len(track_uris), batch_size)
           /\ Flatten([k \in 1..Len(calls) |-> calls[k].batch]) = track_uris

\* a finished run whose last chunk is shorter than the batch size and whose
\* first chunk failed
C3_Witness ==
  /\ pc = "done"
  /\ Len(track_uris) % batch_size # 0
  /\ Len(Lookups) >= 3
  /\ \E p \in EventsOf("log_warning") : events[p].batch_num = 1

\* ------------------------------------------------------------------ C4
\* the final save_features_to_file(all_features, output_file) has been called
FinalSaveCalled ==
  \E p \in EventsOf("save") : events[p].path = output_file

C4_WitnessPacing ==
  /\ \E p \in EventsOf("log_error") :
        events[p].batch_num = 1 /\ events[p].at = "time.sleep"
  /\ Len(Lookups) >= 2

\* ------------------------------------------------------------------ C5
\* the lookup of chunk k returned an empty result (the warning of line 189)
ReturnedEmpty(k) ==
  \E p \in EventsOf("log_warning") : events[p].batch_num = k

\* the run of the example: 120 distinct identifiers, batch size 50
Example120 == track_uris = LongList(120) /\ batch_size = 50

\* C5: when the lookup of a chunk returned an empty result, the merge step
\* appends the whole chunk to the failure list and leaves the feature
\* dataset as it was; with 120 distinct identifiers and batch size 50 the
\* calls have sizes 50, 50, 20 and, if the second returned empty, the failure
\* list holds the 50 identifiers of chunk 2 and the dataset holds no entry
\* of chunk 2.
C5_EmptyResult ==
  /\ [][(pc = "merge" /\ batch_features = EmptyDict) =>
          /\ failed_tracks' = failed_tracks \o Chunk(track_uris, batch_size, batch_num)
          /\ all_features' = all_features]_vars
  /\ []((Example120 /\ AfterLoop) =>
          /\ [k \in 1..Len(Lookups) |-> Len(Lookups[k].batch)] = <<50, 50, 20>>
          /\ ReturnedEmpty(2) =>
                /\ \A j \in 51..100 : InFailureList(track_uris[j])
                /\ \A j \in 51..100 : track_uris[j] \notin DOMAIN all_features
                /\ DOMAIN all_features \subseteq
                      {track_uris[j] : j \in (1..50) \cup (101..120)})

\* the example run, finished: chunk 2 returned empty, chunks 1 and 3 are in
\* the dataset, and the failure list is exactly chunk 2
C5_Witness ==
  /\ Example120 /\ pc = "done"
  /\ ReturnedEmpty(2)
  /\ DOMAIN all_features = {track_uris[j] : j \in (1..50) \cup (101..120)}
  /\ failed_tracks = SubSeq(track_uris, 51, 100)

\* ------------------------------------------------------------------ C6
\* the elements appended to the failure list by the step being taken
Appended == SubSeq(failed_tracks', Len(failed_tracks) + 1, Len(failed_tracks'))

\* positions of the chunk whose uri is absent from the result or mapped to
\* the unavailable marker
FailedPositions(chunk, result) ==
  {j \in 1..Len(chunk) : chunk[j] \notin DOMAIN result \/ result[chunk[j]] = None}

\* C6: when the lookup of a chunk returned a non-empty result, the merge
\* step stores every entry of the result in the feature dataset, keeps the
\* other entries, and appends to the failure list exactly the identifiers of
\* the chunk that are absent from the result or mapped to the unavailable
\* marker, in chunk order; none mapped to a populated record is appended.
C6_MergeNonEmpty ==
  [][(pc = "merge" /\ batch_features # EmptyDict) =>
      LET chunk == Chunk(track_uris, batch_size, batch_num)
          pos == FailedPositions(chunk, batch_features)
      IN /\ DOMAIN all_features' = (DOMAIN all_features) \cup (DOMAIN batch_features)
         /\ \A u \in DOMAIN batch_features : all_features'[u] = batch_features[u]
         /\ \A u \in (DOMAIN all_features) \ (DOMAIN batch_features) :
               all_features'[u] = all_features[u]
         /\ Len(failed_tracks') = Len(failed_tracks) + Cardinality(pos)
         /\ SubSeq(failed_tracks', 1, Len(failed_tracks)) = failed_tracks
         /\ \A j \in pos :
               Appended[Cardinality({k \in pos : k <= j})] = chunk[j]
         /\ \A u \in Range(Appended) :
               ~(u \in DOMAIN batch_features /\ batch_features[u] # None)]_vars

\* a merge has stored a non-empty result that maps one identifier of the
\* chunk to a record, one to the unavailable marker, and lacks one
C6_Witness ==
  /\ pc = "pace"
  /\ batch_features # EmptyDict
  /\ \E u, v, w \in Range(Batch) :
        /\ Populated(u) /\ ~InFailureList(u)
        /\ NullMarked(v) /\ InFailureList(v)
        /\ w \notin DOMAIN batch_features /\ InFailureList(w)

\* ------------------------------------------------------------------ C7
\* the wait a rate-limit answer asks for
SuggestedWait(retry_after) ==
  CASE retry_after = "absent"    -> FallbackWait
    [] retry_after = "7"         -> 7
    [] retry_after = "http-date" -> HttpDateWait

\* the first lookup call issued after position p of the history, 0 if none
NextLookupAfter(p) ==
  LET later == {q \in EventsOf("lookup") : q > p}
  IN IF later = {} THEN 0 ELSE CHOOSE q \in later : \A r \in later : q <= r

\* C7: a lookup answered with a rate-limit signal is followed, before the
\* next lookup call, by a sleep of the suggested duration (60 seconds when
\* none is supplied), and once its chunk is processed all identifiers of the
\* chunk are in the failure list and none has a populated record.
C7_RateLimitWait ==
  \A p \in EventsOf("remote") :
     events[p].answer = "rate_limited" =>
        LET q == NextLookupAfter(p)
            chunk == events[p - 1].batch
        IN /\ q # 0 =>
                \E r \in EventsOf("sleep") :
                    /\ p < r /\ r < q
                    /\ events[r].secs = SuggestedWait(events[p].retry_after)
           /\ (q # 0 \/ AfterLoop) =>
                /\ \A u \in Range(chunk) : InFailureList(u)
                /\ Distinct(track_uris) =>
                      \A u \in Range(chunk) : ~Populated(u)

\* ------------------------------------------------------------------ C8
\* C8: get_audio_features_batch never raises to its caller: no fault handled
\* or logged by the orchestrator comes out of the batch lookup, and after a
\* remote call that did not answer a list the lookup has returned the empty
\* map.
C8_LookupNeverRaises ==
  /\ ~(e.raised /\ e.at = "get_audio_features_batch")
  /\ \A p \in EventsOf("log_error") : events[p].at # "get_audio_features_batch"
  /\ (pc = "merge" /\ events[Len(events)].ev \in {"remote", "sleep"}) =>
        LET p == CHOOSE q \in EventsOf("remote") :
                    \A r \in EventsOf("remote") : r <= q
        IN events[p].answer # "ok" => batch_features = EmptyDict

\* ------------------------------------------------------------------ C9
\* positions of the history at which the final dataset was written
FinalWrites ==
  {p \in EventsOf("save") : events[p].path = output_file /\ events[p].written}

\* C9: at the end of a run the final CollectionState has been written
\* to the output location exactly once, after the last lookup; the failure
\* list has been written to the .failed sibling iff it is non-empty, and
\* only after the final dataset write.
C9_FinalWrite ==
  pc = "done" =>
     /\ Cardinality(FinalWrites) = 1
     /\ \A p \in FinalWrites :
           /\ events[p].content = all_features
           /\ \A q \in EventsOf("lookup") : q < p
     /\ output_file \in DOMAIN files /\ files[output_file] = all_features
     /\ (EventsOf("dump") # {}) <=> (failed_tracks # <<>>)
     /\ \A d \in EventsOf("dump") :
           /\ events[d].path = WithSuffix(output_file, ".failed")
           /\ events[d].content = failed_tracks
           /\ \E p \in FinalWrites : p < d

\* ------------------------------------------------------------------ C10
\* C10: a run never ends by raising: it ends with the summary statistics
\* computed and the CollectionState returned.
C10_RunCompletes ==
  /\ pc # "raised"
  /\ pc = "done" =>
        /\ summary.requested = Len(track_uris)
        /\ summary.collected = success_count
        /\ summary.failed = Len(failed_tracks)
        /\ returned.returned /\ returned.value = all_features

\* ------------------------------------------------------------------ C11
\* the bare-ID form of an identifier of the form spotify:track:<id> or <id>
BareId(u) ==
  IF Len(u) = 3 /\ u[1] = "spotify" /\ u[2] = "track" THEN <<u[3]>> ELSE u

\* the first n elements of a sequence, all of it when it is shorter
FirstN(s, n) == SubSeq(s, 1, Min(Len(s), n))

\* C11: a batch lookup sends the remote service the ids of at most the
\* first 100 identifiers of the batch it was given, in order, and every key
\* of the map it returns is one of those first 100 identifiers.
C11_ProviderCap ==
  /\ \A p \in EventsOf("remote") :
        LET sent == events[p].ids
            first == FirstN(events[p - 1].batch, 100)
        IN /\ Len(sent) = Len(first)
           /\ \A j \in 1..Len(first) : sent[j] = BareId(first[j])
  /\ pc = "merge" => DOMAIN batch_features \subseteq Range(FirstN(Batch, 100))

\* a batch of 120 identifiers was looked up: 100 ids were sent and the
\* result has records for the first 100 identifiers only
C11_Witness ==
  /\ pc = "merge"
  /\ Len(Batch) = 120
  /\ Len(events[Len(events)].ids) = 100
  /\ DOMAIN batch_features = Range(SubSeq(Batch, 1, 100))
  /\ Batch[101] \notin DOMAIN batch_features

\* ------------------------------------------------------------------ C12
\* C12: every id sent to the remote service is the bare-ID form of the
\* identifier at the same position of the batch (spotify:track:<id> becomes
\* <id>, a bare id is sent as it is); a record in the result of a lookup is
\* the one the service answered for the id of its key; and the keys of the
\* result, of the feature dataset and of the failure list are identifiers
\* exactly as the caller passed them, prefix included.
C12_BareIdsOriginalKeys ==
  /\ \A p \in EventsOf("remote") :
        LET sent == events[p].ids
            batch == events[p - 1].batch
        IN \A j \in 1..Len(sent) :
              /\ Len(sent[j]) = 1
              /\ batch[j] \in {sent[j], <<"spotify", "track">> \o sent[j]}
  /\ pc = "merge" =>
        /\ DOMAIN batch_features \subseteq Range(Batch)
        /\ \A u \in DOMAIN batch_features :
              batch_features[u] # None =>
                 \A k \in FeatureKeys : batch_features[u][k] = BareId(u)
  /\ DOMAIN all_features \subseteq Range(track_uris)
  /\ Range(failed_tracks) \subseteq Range(track_uris)

\* a lookup of a batch holding a prefixed and a bare identifier sent two
\* bare ids, and the dataset holds the prefixed identifier as a key, with
\* the record of its bare id
C12_Witness ==
  /\ pc = "pace"
  /\ Batch = <<<<"spotify", "track", "a">>, <<"b">>>>
  /\ \E p \in EventsOf("remote") : events[p].ids = <<<<"a">>, <<"b">>>>
  /\ Populated(<<"spotify", "track", "a">>)
  /\ all_features[<<"spotify", "track", "a">>]["tempo"] = <<"a">>
  /\ <<"a">> \notin DOMAIN all_features
  /\ InFailureList(<<"b">>)

\* ------------------------------------------------------------------ C13
\* how a mapping holds an identifier: a record of the 12 feature fields, the
\* unavailable marker, or not at all
Status(d, u) ==
  IF u \notin DOMAIN d THEN "absent"
  ELSE IF d[u] = None THEN "null"
  ELSE IF DOMAIN d[u] = FeatureKeys THEN "record"
  ELSE "other"

\* the identifier occurs exactly once in the sequence
OccursOnce(u, s) == Cardinality({j \in 1..Len(s) : s[j] = u}) = 1

\* the lookup obtained an answer list it could map onto the batch: one slot
\* at most per identifier looked up, every object with all its fields
CallSucceeded(batch, fl) ==
  /\ fl.list
  /\ Len(fl.kinds) <= Len(FirstN(batch, 100))
  /\ \A j \in 1..Len(fl.kinds) : fl.kinds[j] \in {"feat", "nodata"}

\* what the lookup obtained for position j of the batch
SlotAnswer(batch, fl, j) ==
  IF ~CallSucceeded(batch, fl) \/ j > Len(fl.kinds) THEN "absent"
  ELSE IF fl.kinds[j] = "feat" THEN "record"
  ELSE "null"

\* C13: in the result of a batch lookup an identifier (occurring once in
\* the batch) maps to a record of the 12 feature fields iff the service
\* returned a feature object for its slot, maps to the unavailable marker iff
\* the service returned no data for its slot, and is absent iff the call
\* failed or answered no slot for it; and the feature dataset holds an
\* identifier (occurring once in the input) exactly as the result of its
\* chunk's lookup did, up to the end of the run.
C13_Distinguishable ==
  /\ [](pc = "merge" =>
          \A j \in 1..Len(Batch) :
             OccursOnce(Batch[j], Batch) =>
                Status(batch_features, Batch[j]) = SlotAnswer(Batch, features_list, j))
  /\ [][\A u \in Range(track_uris) :
           OccursOnce(u, track_uris) =>
              Status(all_features', u) =
                 IF pc = "merge" /\ u \in Range(Batch)
                 THEN Status(batch_features, u)
                 ELSE Status(all_features, u)]_vars

\* the example run, finished: it holds the first identifier with a record
\* and the second with the unavailable marker, and lacks the identifiers of
\* chunk 2, whose lookup returned nothing
C13_Witness ==
  /\ Example120 /\ pc = "done"
  /\ Status(all_features, track_uris[1]) = "record"
  /\ Status(all_features, track_uris[2]) = "null"
  /\ Status(all_features, track_uris[51]) = "absent"
  /\ InFailureList(track_uris[2]) /\ InFailureList(track_uris[51])

\* ------------------------------------------------------------------ C14
\* positions of the history at which a checkpoint was written
CheckpointWrites ==
  {p \in EventsOf("save") :
      events[p].path = WithSuffix(output_file, ".tmp") /\ events[p].written}

\* the entries of the dataset that belong to chunks 1..k
MergedUpTo(k) ==
  LET ids == Range(FirstN(track_uris, k * batch_size))
  IN [u \in (DOMAIN all_features) \cap ids |-> all_features[u]]

\* C14: once chunk k has been processed, for every k that is a multiple of
\* 10 and whatever the outcome of chunk k, the dataset accumulated over
\* chunks 1..k has been written to the checkpoint file (the output path
\* suffixed .tmp); no checkpoint is written at any other chunk index.
C14_Checkpoints ==
  /\ \A k \in 1..(i \div batch_size) :
        k % 10 = 0 =>
           \E p \in CheckpointWrites :
              /\ events[p].batch_num = k
              /\ Distinct(track_uris) => events[p].content = MergedUpTo(k)
  /\ \A p \in CheckpointWrites : events[p].batch_num % 10 = 0

\* ------------------------------------------------------------------ C15
\* C15: between any two successive lookup calls the orchestrator sleeps at
\* least the configured inter-batch delay, whatever the outcome of the
\* first of the two; no two lookup calls are issued without a sleep between
\* them.
C15_Pacing ==
  \A p \in EventsOf("lookup") :
     LET q == NextLookupAfter(p)
     IN q # 0 =>
          \E r \in EventsOf("sleep") :
             p < r /\ r < q /\ events[r].secs >= delay

\* ------------------------------------------------------------------ C16
\* the call of the extractor is over
Extracted == xpc \in {"returned", "raised"}

\* the file has the structure the extractor reads: it parses, has the
\* playlist list, every playlist its track list and every entry its fields
WellFormed(content) ==
  /\ content.parses
  /\ "playlists" \in DOMAIN content.data
  /\ \A j \in 1..Len(content.data["playlists"]) :
        LET playlist == content.data["playlists"][j]
        IN /\ "tracks" \in DOMAIN playlist
           /\ \A t \in 1..Len(playlist["tracks"]) :
                 TrackFields \subseteq DOMAIN playlist["tracks"][t]

\* the track entries of a well-formed file, in file order
EntriesOf(content) ==
  Flatten([j \in 1..Len(content.data["playlists"]) |->
              content.data["playlists"][j]["tracks"]])

\* the track entries of the well-formed files among the files processed
ParsedEntries ==
  Flatten([j \in 1..Len(slice_files) |->
              IF WellFormed(data_dir[slice_files[j]])
              THEN EntriesOf(data_dir[slice_files[j]])
              ELSE <<>>])

\* the number of entries of the sequence with the identifier
Occurrences(entries, uri) ==
  Cardinality({j \in 1..Len(entries) : entries[j]["track_uri"] = uri})

\* C16: for every input directory, one without slice files or without
\* track entries included, the extractor returns, the number of unique
\* identifiers it returns is the number of distinct identifiers over the
\* track entries of the parsed files, and the frequencies sum to the number
\* of those entries; the example directory (2 files, 10 entries, 6
\* identifiers, one 3 times) yields 6 records, sum 10 and frequency 3.
C16_Counts ==
  /\ xpc # "raised"
  /\ xpc = "returned" =>
        /\ Cardinality(DOMAIN unique_tracks) =
              Cardinality({ParsedEntries[j]["track_uri"] : j \in 1..Len(ParsedEntries)})
        /\ SumValues(track_frequency) = Len(ParsedEntries)
  /\ (xpc = "returned" /\ data_dir = ExampleDir /\ Len(slice_files) = 2) =>
        /\ Cardinality(DOMAIN unique_tracks) = 6
        /\ SumValues(track_frequency) = 10
        /\ track_frequency[Uri("a")] = 3

\* ------------------------------------------------------------------ C17
\* the first entry of the sequence with the identifier
FirstEntry(entries, uri) ==
  entries[CHOOSE j \in 1..Len(entries) :
             /\ entries[j]["track_uri"] = uri
             /\ \A k \in 1..(j - 1) : entries[k]["track_uri"] # uri]

\* the identifiers of the entries
IdsOf(entries) == {entries[j]["track_uri"] : j \in 1..Len(entries)}

\* the unique-track mapping and the frequency table of a sequence of entries
UniqueTracksOf(entries) ==
  [u \in IdsOf(entries) |-> [k \in TrackFields |-> FirstEntry(entries, u)[k]]]

FrequencyOf(entries) == [u \in IdsOf(entries) |-> Occurrences(entries, u)]

\* C17: a malformed file (unparseable, without the playlist list, or with a
\* track entry lacking a required field at any position) does not stop the
\* loop, every file is processed, and the unique-track mapping and the
\* frequency table returned are those of the well-formed files alone.
C17_MalformedIsolated ==
  /\ xpc \in {"summary", "returned", "raised"} => slice_idx = Len(slice_files)
  /\ xpc = "returned" =>
        /\ unique_tracks = UniqueTracksOf(ParsedEntries)
        /\ track_frequency = FrequencyOf(ParsedEntries)

\* ------------------------------------------------------------------ C18
\* one of the two credential values is unset or empty
CredentialsAbsent == ~Truthy(client_id) \/ ~Truthy(client_secret)

\* main is over: it returned or an exception left it
MainOver == mpc \in {"done", "raised"}

\* the document save_track_data writes for the extractor's result
TracksDocument ==
  [tracks |-> [j \in 1..Len(unique_keys) |-> unique_tracks[unique_keys[j]]],
   frequencies |-> track_frequency,
   summary |-> [unique_tracks |-> Cardinality(DOMAIN unique_tracks),
                total_instances |-> total_tracks_processed]]

\* C18: when a credential value is absent, main constructs no client, makes
\* no remote call and writes no feature dataset, and it ends normally, with
\* the track dataset persisted.
C18_NoCredentials ==
  CredentialsAbsent =>
     /\ kpc = "idle"
     /\ pc = "idle"
     /\ events = <<>>
     /\ DOMAIN files \subseteq {TracksFile}
     /\ mpc # "raised"
     /\ mpc = "done" =>
           /\ TracksFile \in DOMAIN files
           /\ files[TracksFile] = TracksDocument

\* ------------------------------------------------------------------ C19
\* the constructor or the enrichment run has raised into main's try block
EnrichmentRaised == kpc = "raised" \/ pc = "raised"

\* C19: with both credentials present, once the constructor or the
\* enrichment run has raised, the exception never leaves main: main goes
\* on, logs the failure and completes, and the track dataset written before
\* the enrichment stays as it was written.
C19_FaultCaught ==
  (~CredentialsAbsent /\ EnrichmentRaised) =>
     /\ mpc \in {"construct", "collect", "complete", "done"}
     /\ ~MainOver => ENABLED MainNext
     /\ mpc \in {"complete", "done"} =>
           /\ mlog[1] = "collection failed"
           /\ \A j \in 1..Len(mlog) : mlog[j] # "collection complete"
     /\ mpc = "done" => mlog = <<"collection failed", "pipeline complete">>
     /\ TracksFile \in DOMAIN files
     /\ files[TracksFile] = TracksDocument

\* main has returned after the feature probe of the smoke test found no data
C19_Witness ==
  /\ mpc = "done"
  /\ kpc = "raised"
  /\ events = <<[ev |-> "search", answer |-> "items"],
                [ev |-> "probe", answer |-> "nodata"]>>
  /\ mlog = <<"collection failed", "pipeline complete">>
  /\ DOMAIN files = {TracksFile}

\* ------------------------------------------------------------------ C20
\* the remote calls made so far, of the smoke test and of batch lookups
RemoteCalls ==
  SelectSeq(events, LAMBDA x : x.ev \in {"search", "probe", "remote"})

\* the smoke test passed both its checks
SmokeTestPassed ==
  /\ Len(events) >= 2
  /\ events[1] = [ev |-> "search", answer |-> "items"]
  /\ events[2] = [ev |-> "probe", answer |-> "features"]

\* C20: the constructor raises, at once, when a credential is empty (then
\* without any remote call), when the search of the smoke test returns no
\* item or errors, and when the feature lookup on the known identifier
\* returns nothing or errors; an enrichment run and a batch lookup happen
\* only on a client whose smoke test passed both checks.
C20_ConstructionGate ==
  /\ CredentialsAbsent => kpc \notin {"search", "probe", "ready"} /\ events = <<>>
  /\ (Len(events) >= 1 /\ events[1].answer # "items") =>
        kpc = "raised" /\ Len(events) = 1
  /\ (Len(events) >= 2 /\ events[2].answer # "features") =>
        kpc = "raised" /\ Len(events) = 2
  /\ kpc = "raised" => ~SmokeTestPassed /\ pc = "idle" /\ Lookups = <<>>
  /\ (pc # "idle" \/ Lookups # <<>>) => kpc = "ready" /\ SmokeTestPassed
  /\ kpc = "ready" => SmokeTestPassed

\* the constructor has raised after a search that found an item and a
\* feature lookup that returned no data, and nothing was looked up
C20_Witness ==
  /\ kpc = "raised"
  /\ ~CredentialsAbsent
  /\ events = <<[ev |-> "search", answer |-> "items"],
                [ev |-> "probe", answer |-> "nodata"]>>
  /\ pc = "idle"

\* the constructor has raised on an empty secret
C20_WitnessEmpty ==
  /\ kpc = "raised"
  /\ client_id = [str |-> "secret"] /\ client_secret = [str |-> ""]
  /\ events = <<>>

\* ------------------------------------------------------------------ C21
\* the slice files of the directory, by their number
SliceCount == Cardinality({f \in DOMAIN data_dir : f[1] = "mpd.slice"})

\* the first k slice files of the directory in sorted order
FirstSlices(k) == [j \in 1..Min(k, SliceCount) |-> SliceName(j)]

\* the files the loop has read
FilesRead == SubSeq(slice_files, 1, slice_idx)

\* C21: with a cap max_files = k, for every k >= 0, the extractor reads at
\* most k files, the first k slice files in sorted order; without a cap it
\* reads all the slice files.
C21_FileCap ==
  xpc \in {"summary", "returned", "raised"} =>
     FilesRead = FirstSlices(IF max_files = None THEN SliceCount
                             ELSE max_files.int)

\* ------------------------------------------------------------------ C22
\* the identifiers requested that have a populated record
PopulatedIds == {u \in Range(track_uris) : Populated(u)}

\* C22: at the end of a run over distinct identifiers, whatever the
\* outcomes of its chunks (results, empty result, a fault at any step), the
\* number of identifiers with a populated record plus the length of the
\* failure list is the number of identifiers requested, and no identifier
\* is in the failure list twice.
C22_Accounting ==
  (pc = "done" /\ Distinct(track_uris)) =>
     /\ Cardinality(PopulatedIds) + Len(failed_tracks) = Len(track_uris)
     /\ Distinct(failed_tracks)

\* ------------------------------------------------------------------ C23
\* positions of the history at which a checkpoint was saved
CheckpointSaves ==
  {p \in EventsOf("save") : events[p].path = WithSuffix(output_file, ".tmp")}

\* every entry of the first mapping is an entry of the second
SubDict(d1, d2) ==
  /\ DOMAIN d1 \subseteq DOMAIN d2
  /\ \A u \in DOMAIN d1 : d2[u] = d1[u]

\* C23: no step of a run removes a key from the feature dataset or an
\* element from the failure list, and for distinct identifiers no step
\* changes the value of a key; so what a checkpoint saved is, key for key
\* and value for value, part of the dataset at every later point and of the
\* final dataset.
C23_OnlyGrows ==
  /\ [][/\ DOMAIN all_features \subseteq DOMAIN all_features'
        /\ Len(failed_tracks) <= Len(failed_tracks')
        /\ SubSeq(failed_tracks', 1, Len(failed_tracks)) = failed_tracks
        /\ Distinct(track_uris) => SubDict(all_features, all_features')]_vars
  /\ [](Distinct(track_uris) =>
          \A p \in CheckpointSaves : SubDict(events[p].content, all_features))

\* a finished run whose checkpoint after chunk 10 was written with records
\* and whose final dataset has those and the record of chunk 11 besides
C23_Witness ==
  /\ pc = "done"
  /\ \E p \in CheckpointSaves :
        /\ events[p].written
        /\ events[p].content # EmptyDict
        /\ SubDict(events[p].content, all_features)
        /\ DOMAIN events[p].content # DOMAIN all_features
        /\ files[WithSuffix(output_file, ".tmp")] = events[p].content
  /\ files[output_file] = all_features

\* ------------------------------------------------------------------ C24
\* C24: once the extractor has returned, malformed files or entries or
\* not, the identifiers counted in the frequency table are exactly the
\* identifiers that have a TrackRecord in the unique-track mapping.
C24_SameKeys ==
  xpc = "returned" => DOMAIN track_frequency = DOMAIN unique_tracks

\* ------------------------------------------------------------------ C25
\* C25: every call of save_features_to_file writes the mapping it is given
\* to the file name it is given, a name without directory component
\* included; so whenever the failure-list file of a run is present, the
\* final feature dataset is present at the output location.
C25_SaveWrites ==
  /\ \A p \in EventsOf("save") :
        /\ events[p].written
        /\ events[p].path \in DOMAIN files
  /\ \A p \in EventsOf("save") :
        (\A q \in EventsOf("save") : q <= p) =>
           files[events[p].path] = events[p].content
  /\ WithSuffix(output_file, ".failed") \in DOMAIN files =>
        /\ output_file \in DOMAIN files
        /\ files[output_file] = all_features

====
